---- MODULE Spec2Model ----
(***************************************************************************)
(* Model of the test-case engine of src/main.py: the retrying execution    *)
(* client (run_test_case), the output comparison (compare_outputs), the    *)
(* case runner (process_single_test_case), the orchestrator                *)
(* (run_test_cases_from_files) and the failure summary of main.            *)
(*                                                                         *)
(* Text is a sequence of tokens (characters or message fragments).  An     *)
(* optional value (Python None or a string) is a record [set, val].        *)
(***************************************************************************)
EXTENDS Integers, Sequences, FiniteSets, TLC

VARIABLES
  \* ---- compare_outputs on its own (SpecCompare)
  c_pc, c_actual, c_expected, c_match, c_msg,
  \* ---- one case through run_test_case, the judgement and main's summary (SpecRetry)
  r_pc, r_max_retries, r_retry_delay, r_attempt, r_posts, r_sleeps, r_hist,
  r_last, r_result, r_expected, r_judged, r_reason,
  \* ---- one run of run_test_cases_from_files (Spec)
  phase,                \* where the orchestrator is
  n_cases,              \* len(test_pairs)
  probe,                \* the answer of GET /api/v2/runtimes being handled
  piston_url, using_public_api, max_concurrent, requests_per_second, min_delay,
  semaphore,            \* the semaphore's free permits
  since_last,           \* loop.time() - last_request_time[0], NoTime for None
  pc, case_attempt, wake,    \* per case: position, attempt number, sleep time left
  outcome, judged,      \* per case: run_test_case's result and the judged result
  results,              \* what the run returns
  since_dispatch,       \* time since the latest POST was started, NoTime if none
  events,               \* per case: what process_single_test_case did, in order
  main_pc,              \* where main is: at its await, or what it did with the value
  \* ---- get_test_case_files on a test directory (SpecFiles)
  f_pc, f_exists, f_inputs, f_outputs, f_pairs, f_warned

cvars == <<c_pc, c_actual, c_expected, c_match, c_msg>>
rvars == <<r_pc, r_max_retries, r_retry_delay, r_attempt, r_posts, r_sleeps,
           r_hist, r_last, r_result, r_expected, r_judged, r_reason>>
ovars == <<phase, n_cases, probe, piston_url,
           using_public_api, max_concurrent, requests_per_second, min_delay,
           semaphore, since_last, pc, case_attempt, wake, outcome, judged, results,
           since_dispatch, events, main_pc>>
fvars == <<f_pc, f_exists, f_inputs, f_outputs, f_pairs, f_warned>>
vars == <<cvars, rvars, ovars, fvars>>

----------------------------------------------------------------------------
\* Bounds of the model
MaxLen == 3
MaxRetries == 2
MaxCases == 2
MaxLimitedCases == 1

----------------------------------------------------------------------------
MinOf(a, b) == IF a <= b THEN a ELSE b

\* Optional values: Python's None and a present string
None == [set |-> FALSE, val |-> <<>>]
Some(t) == [set |-> TRUE, val |-> t]
\* Python truthiness of an optional string: not None and not ''
Truthy(o) == o.set /\ o.val # <<>>

\* Characters str.rstrip() removes
WhitespaceChars == {" ", "\n"}
\* Characters the modelled outputs are made of
Chars == {"a", "A", " ", "\n"}

RECURSIVE Rstrip(_)
Rstrip(s) ==
  IF s = <<>> THEN <<>>
  ELSE IF s[Len(s)] \in WhitespaceChars THEN Rstrip(SubSeq(s, 1, Len(s) - 1))
  ELSE s

RECURSIVE StripBoth(_)
StripBoth(s) ==
  IF s = <<>> THEN <<>>
  ELSE IF s[1] \in WhitespaceChars THEN StripBoth(Tail(s))
  ELSE Rstrip(s)

normalize_output_strip(output) ==
  IF ~output.set THEN <<>> ELSE StripBoth(output.val)

normalize_output(output) ==
  IF ~output.set THEN <<>> ELSE Rstrip(output.val)

compare_outputs(actual, expected) ==
  LET actual_normalized == normalize_output(actual)
      expected_normalized == normalize_output(expected)
  IN IF actual_normalized = expected_normalized
     THEN [match |-> TRUE, msg |-> <<"Output matches expected result">>]
     ELSE [match |-> FALSE,
           msg |-> <<"Output mismatch\nExpected:\n">> \o expected_normalized
                   \o <<"\n\nGot:\n">> \o actual_normalized]

----------------------------------------------------------------------------
\* ---- run_test_case: decoding one response of the execution service

\* A JSON integer field that may be missing
NoCode == [has |-> FALSE, v |-> 0]
Code(n) == [has |-> TRUE, v |-> n]
\* A missing code read as 0 whatever the default
GetCodeZero(c, default) == IF c.has THEN c.v ELSE 0

\* dict.get(key, default)
GetCode(c, default) == IF c.has THEN c.v ELSE default

\* A missing section of the response body
NoSection == [present |-> FALSE, stdout |-> <<>>, stderr |-> <<>>, code |-> NoCode]
Section(out, err, c) == [present |-> TRUE, stdout |-> out, stderr |-> err, code |-> c]

EmptyOutcome ==
  [stdout |-> <<>>, stderr |-> <<>>, compile_error |-> None,
   runtime_error |-> None, success |-> FALSE]

\* The outcome returned for a failure: only runtime_error is set
ErrorOutcome(msg) == [EmptyOutcome EXCEPT !.runtime_error = Some(msg)]

ApplyRun(result, body) ==
  IF body.run.present
  THEN LET exit_code == GetCode(body.run.code, -1)
           r1 == [result EXCEPT !.stdout = body.run.stdout,
                                !.stderr = body.run.stderr,
                                !.success = (exit_code = 0)]
       IN IF exit_code # 0 /\ r1.stderr = <<>>
          THEN [r1 EXCEPT
                  !.runtime_error = Some(<<"Process exited with code ", ToString(exit_code)>>),
                  !.success = FALSE]
          ELSE r1
  ELSE result

ApplyCompile(result, body) ==
  IF body.compile.present
  THEN IF body.compile.stderr # <<>>
       THEN [result EXCEPT !.compile_error = Some(body.compile.stderr),
                           !.success = FALSE]
       ELSE IF GetCode(body.compile.code, 0) # 0
       THEN [result EXCEPT
               !.compile_error = Some(IF body.compile.stdout # <<>>
                                      THEN body.compile.stdout
                                      ELSE <<"Compilation failed">>),
               !.success = FALSE]
       ELSE result
  ELSE result

ApplyNoRun(result, body) ==
  IF ~body.run.present
  THEN [result EXCEPT !.runtime_error = Some(<<"No execution output received">>),
                      !.success = FALSE]
  ELSE result

\* The compile section looked at before the run section
DecodeCompileFirst(body) == ApplyNoRun(ApplyRun(ApplyCompile(EmptyOutcome, body), body), body)

Decode(body) == ApplyNoRun(ApplyCompile(ApplyRun(EmptyOutcome, body), body), body)

\* str(e).lower() of the message fragments the model uses
Lower(tok) ==
  CASE tok = "Too Many Requests" -> "too many requests"
    [] tok = "Connection refused" -> "connection refused"
    [] tok = "Service Unavailable" -> "service unavailable"
    [] tok = "boom" -> "boom"
    [] OTHER -> tok

RateLimitMarkers == {"rate limit", "ratelimit", "429", "too many requests"}

\* The markers looked for in str(e) as it is, not lowered
is_rate_limit_case_sensitive(msg) == \E i \in 1..Len(msg) : msg[i] \in RateLimitMarkers

is_rate_limit(msg) == \E i \in 1..Len(msg) : Lower(msg[i]) \in RateLimitMarkers

RECURSIVE Pow2(_)
Pow2(n) == IF n = 0 THEN 1 ELSE 2 * Pow2(n - 1)

\* Backoff that does not grow
BackoffConstant(retry_delay, attempt) == retry_delay

Backoff(retry_delay, attempt) == retry_delay * Pow2(attempt)

\* A rate-limit signal is always retried
MayRetryAlways(attempt, max_retries) == TRUE

\* One more attempt allowed after the last permitted retry
MayRetryOffByOne(attempt, max_retries) == attempt <= max_retries

MayRetry(attempt, max_retries) == attempt < max_retries

Sleep(w) == [op |-> "sleep", wait |-> w, result |-> EmptyOutcome]
Return(r) == [op |-> "return", wait |-> 0, result |-> r]

\* Every aiohttp.ClientError is retried while retries are left
RetryStepRetryAll(attempt, max_retries, retry_delay, resp) ==
  CASE resp.kind = "status429" ->
         IF MayRetry(attempt, max_retries)
         THEN Sleep(Backoff(retry_delay, attempt))
         ELSE Return(ErrorOutcome(<<"Rate limit exceeded">>))
    [] resp.kind = "ok" -> Return(Decode(resp.body))
    [] resp.kind = "client_error" ->
         IF MayRetry(attempt, max_retries)
         THEN Sleep(Backoff(retry_delay, attempt))
         ELSE Return(ErrorOutcome(<<"HTTP error: ">> \o resp.msg))
    [] OTHER -> Return(ErrorOutcome(resp.msg))

\* One iteration of the attempt loop, given what the POST produced
RetryStep(attempt, max_retries, retry_delay, resp) ==
  CASE resp.kind = "status429" ->
         IF MayRetry(attempt, max_retries)
         THEN Sleep(Backoff(retry_delay, attempt))
         ELSE Return(ErrorOutcome(<<"Rate limit exceeded">>))
    [] resp.kind = "ok" -> Return(Decode(resp.body))
    [] resp.kind = "client_error" ->
         IF is_rate_limit(resp.msg) /\ MayRetry(attempt, max_retries)
         THEN Sleep(Backoff(retry_delay, attempt))
         ELSE Return(ErrorOutcome(<<"HTTP error: ">> \o resp.msg))
    [] OTHER -> Return(ErrorOutcome(resp.msg))

NoBody == [run |-> NoSection, compile |-> NoSection]
Status429 == [kind |-> "status429", body |-> NoBody, msg |-> <<>>]
Ok(b) == [kind |-> "ok", body |-> b, msg |-> <<>>]
ClientError(m) == [kind |-> "client_error", body |-> NoBody, msg |-> m]
OtherException(m) == [kind |-> "exception", body |-> NoBody, msg |-> m]

----------------------------------------------------------------------------
\* ---- process_single_test_case: the judgement of one outcome

\* overall_success without the execution's success flag
JudgeIgnoringSuccess(result, expected_output, test_index) ==
  LET cmp == compare_outputs(Some(result.stdout), Some(expected_output))
  IN [stdout |-> result.stdout,
      stderr |-> result.stderr,
      compile_error |-> result.compile_error,
      runtime_error |-> result.runtime_error,
      success |-> result.success,
      expected_output |-> expected_output,
      output_match |-> cmp.match,
      comparison_msg |-> cmp.msg,
      test_index |-> test_index,
      overall_success |-> (cmp.match /\ ~Truthy(result.compile_error))]

Judge(result, expected_output, test_index) ==
  LET cmp == compare_outputs(Some(result.stdout), Some(expected_output))
  IN [stdout |-> result.stdout,
      stderr |-> result.stderr,
      compile_error |-> result.compile_error,
      runtime_error |-> result.runtime_error,
      success |-> result.success,
      expected_output |-> expected_output,
      output_match |-> cmp.match,
      comparison_msg |-> cmp.msg,
      test_index |-> test_index,
      overall_success |-> (result.success /\ cmp.match /\ ~Truthy(result.compile_error))]

EmptyJudged == Judge(EmptyOutcome, <<>>, 0)

\* ---- main: the reason printed for a failed case
\* The runtime error looked at before the compile error
FailureReasonRuntimeFirst(r) ==
  IF Truthy(r.runtime_error) THEN "Runtime error"
  ELSE IF Truthy(r.compile_error) THEN "Compilation error"
  ELSE IF ~r.output_match THEN "Output mismatch"
  ELSE "Execution failed"

FailureReason(r) ==
  IF Truthy(r.compile_error) THEN "Compilation error"
  ELSE IF Truthy(r.runtime_error) THEN "Runtime error"
  ELSE IF ~r.output_match THEN "Output mismatch"
  ELSE "Execution failed"

\* Cases with overall_success are not in the failed list and get no reason
NoReason == ""
SummaryReason(r) == IF ~r.overall_success THEN FailureReason(r) ELSE NoReason

\* ---- the parts of the state a specification does not use
RetryIdle ==
  /\ r_pc = "idle" /\ r_max_retries = 0 /\ r_retry_delay = 0 /\ r_attempt = 0
  /\ r_posts = 0 /\ r_sleeps = <<>> /\ r_hist = <<>> /\ r_last = Status429
  /\ r_result = EmptyOutcome /\ r_expected = <<>> /\ r_judged = EmptyJudged
  /\ r_reason = NoReason

RunIdle ==
  /\ phase = "idle" /\ n_cases = 0
  /\ probe = "none" /\ piston_url = "" /\ using_public_api = FALSE
  /\ max_concurrent = 0 /\ requests_per_second = 0 /\ min_delay = 0
  /\ semaphore = 0 /\ since_last = -1 /\ pc = <<>> /\ case_attempt = <<>>
  /\ wake = <<>> /\ outcome = <<>> /\ judged = <<>> /\ results = <<>>
  /\ since_dispatch = -1 /\ events = <<>> /\ main_pc = "idle"

FilesIdle ==
  /\ f_pc = "idle" /\ f_exists = FALSE /\ f_inputs = {} /\ f_outputs = {}
  /\ f_pairs = <<>> /\ f_warned = {}

CompareIdle ==
  /\ c_pc = "idle" /\ c_actual = None /\ c_expected = None
  /\ c_match = FALSE /\ c_msg = <<>>

----------------------------------------------------------------------------
\* SpecRetry: one case through run_test_case, the judgement and the summary
RunStdouts == {<<>>, <<"a">>, <<"a", "\n">>}
RunStderrs == {<<>>, <<"e">>}
CompileStdouts == {<<>>, <<"c">>}
CompileStderrs == {<<>>, <<"syntax error">>}
Codes == {NoCode, Code(0), Code(1)}
RunSections ==
  {NoSection} \cup {Section(o, e, c) : o \in RunStdouts, e \in RunStderrs, c \in Codes}
CompileSections ==
  {NoSection} \cup {Section(o, e, c) : o \in CompileStdouts, e \in CompileStderrs, c \in Codes}
Bodies == {[run |-> r, compile |-> c] : r \in RunSections, c \in CompileSections}
ClientErrorMsgs == {<<"Connection refused">>, <<"Too Many Requests">>,
                    <<"503, message=", "Service Unavailable">>}
ExceptionMsgs == {<<>>, <<"boom">>}
Responses ==
  {Status429} \cup {Ok(b) : b \in Bodies}
    \cup {ClientError(m) : m \in ClientErrorMsgs}
    \cup {OtherException(m) : m \in ExceptionMsgs}
Expecteds == {<<>>, <<"a">>, <<"\n">>}
RetryDelays == {1, 2}

InitRetry ==
  /\ r_pc = "loop"
  /\ r_max_retries \in (-1)..MaxRetries
  /\ r_retry_delay \in RetryDelays
  /\ r_expected \in Expecteds
  /\ r_attempt = 0
  /\ r_posts = 0
  /\ r_sleeps = <<>>
  /\ r_hist = <<>>
  /\ r_last = Status429
  /\ r_result = EmptyOutcome
  /\ r_judged = EmptyJudged
  /\ r_reason = NoReason
  /\ CompareIdle
  /\ RunIdle
  /\ FilesIdle

\* One attempt: the POST is answered by resp and the loop body handles it
RT_Attempt(resp) ==
  /\ r_pc = "loop"
  /\ r_attempt <= r_max_retries
  /\ LET step == RetryStep(r_attempt, r_max_retries, r_retry_delay, resp)
     IN IF step.op = "sleep"
        THEN /\ r_sleeps' = Append(r_sleeps, step.wait)
             /\ r_attempt' = r_attempt + 1
             /\ UNCHANGED <<r_pc, r_result>>
        ELSE /\ r_result' = step.result
             /\ r_pc' = "returned"
             /\ UNCHANGED <<r_sleeps, r_attempt>>
  /\ r_posts' = r_posts + 1
  /\ r_hist' = Append(r_hist, resp.kind)
  /\ r_last' = resp
  /\ UNCHANGED <<r_max_retries, r_retry_delay, r_expected, r_judged, r_reason, cvars, ovars, fvars>>

\* The loop ran out of attempts without returning
RT_FallThrough ==
  /\ r_pc = "loop"
  /\ r_attempt > r_max_retries
  /\ r_result' = ErrorOutcome(<<"Failed to execute after retries">>)
  /\ r_pc' = "returned"
  /\ UNCHANGED <<r_max_retries, r_retry_delay, r_attempt, r_posts, r_sleeps, r_hist,
                 r_last, r_expected, r_judged, r_reason, cvars, ovars, fvars>>

RT_Judge ==
  /\ r_pc = "returned"
  /\ r_judged' = Judge(r_result, r_expected, 1)
  /\ r_pc' = "judged"
  /\ UNCHANGED <<r_max_retries, r_retry_delay, r_attempt, r_posts, r_sleeps, r_hist,
                 r_last, r_result, r_expected, r_reason, cvars, ovars, fvars>>

RT_Summarise ==
  /\ r_pc = "judged"
  /\ r_reason' = SummaryReason(r_judged)
  /\ r_pc' = "summarised"
  /\ UNCHANGED <<r_max_retries, r_retry_delay, r_attempt, r_posts, r_sleeps, r_hist,
                 r_last, r_result, r_expected, r_judged, cvars, ovars, fvars>>

NextRetry ==
  \/ \E resp \in Responses : RT_Attempt(resp)
  \/ RT_FallThrough
  \/ RT_Judge
  \/ RT_Summarise

SpecRetry == InitRetry /\ [][NextRetry]_vars

----------------------------------------------------------------------------
\* SpecCompare: compare_outputs applied to every pair of bounded strings
RECURSIVE TextsUpTo(_)
TextsUpTo(n) ==
  IF n = 0 THEN {<<>>}
  ELSE LET shorter == TextsUpTo(n - 1)
       IN shorter \cup {Append(t, ch) : t \in {u \in shorter : Len(u) = n - 1}, ch \in Chars}

CompareInputs == {None} \cup {Some(t) : t \in TextsUpTo(MaxLen)}

InitCompare ==
  /\ c_pc = "call"
  /\ c_actual \in CompareInputs
  /\ c_expected \in CompareInputs
  /\ c_match = FALSE
  /\ c_msg = <<>>
  /\ RetryIdle
  /\ RunIdle
  /\ FilesIdle

Compare ==
  /\ c_pc = "call"
  /\ LET r == compare_outputs(c_actual, c_expected)
     IN /\ c_match' = r.match
        /\ c_msg' = r.msg
  /\ c_pc' = "compared"
  /\ UNCHANGED <<c_actual, c_expected, rvars, ovars, fvars>>

NextCompare == Compare

SpecCompare == InitCompare /\ [][NextCompare]_vars

----------------------------------------------------------------------------
\* ---- run_test_cases_from_files and process_single_test_case (Spec)
\* Time is counted in ticks of a quarter second, the spacing of the public
\* endpoint's policy.  Sleeps are kept as the time left, and the times since
\* the last request and the last POST are kept up to min_delay, beyond which
\* the code does not tell them apart.
NoTime == -1
ConfiguredUrl == "http://localhost:2000"
PublicUrl == "https://emkc.org/api/v2/piston"
PublicMaxConcurrent == 1
PublicRequestsPerSecond == 4
DefaultMaxRetries == 3
DefaultRetryDelay == 1
TicksPerSecond == PublicRequestsPerSecond

\* 1.0 / requests_per_second, in ticks
MinDelayOf(rps) == TicksPerSecond \div rps

\* The caller's max_concurrent and requests_per_second
ConcurrentArgs == {1, 2}
RpsArgs == {2}
ProbeOutcomes == {"runtimes", "empty", "non200", "exception"}

\* The limiter's policy after the probe of GET /api/v2/runtimes
ProbeConfig(probed, mc, rps) ==
  IF probed \in {"empty", "exception"}
  THEN [piston_url |-> PublicUrl, using_public_api |-> TRUE,
        max_concurrent |-> PublicMaxConcurrent,
        requests_per_second |-> PublicRequestsPerSecond,
        min_delay |-> MinDelayOf(PublicRequestsPerSecond)]
  ELSE [piston_url |-> ConfiguredUrl, using_public_api |-> FALSE,
        max_concurrent |-> mc, requests_per_second |-> rps,
        min_delay |-> MinDelayOf(rps)]

Cases == 1..n_cases
CaseExpected(i) == <<"a">>
PassBody == [run |-> Section(<<"a", "\n">>, <<>>, Code(0)), compile |-> NoSection]
MismatchBody == [run |-> Section(<<>>, <<>>, Code(0)), compile |-> NoSection]
CaseResponses ==
  {Status429, Ok(PassBody), Ok(MismatchBody), ClientError(<<"Connection refused">>)}

\* Positions at which a case is inside "async with semaphore"
HoldingPcs == {"spacing", "calling", "backoff"}
Holding(i) == pc[i] \in HoldingPcs

\* The cases the service has answered with HTTP 429 at least once
LimitedCases == {i \in Cases : case_attempt[i] > 0}

\* A permit can be taken whatever the semaphore's value
SemaphoreFreeAlways(value) == TRUE

\* asyncio.Semaphore: a permit can be taken when the value is positive
SemaphoreFree(value) == value > 0

\* The POST is never delayed
SpacingWaitNone(since, delay) == 0

\* The wait before the POST: min_delay - time_since_last when the last
\* request is closer than min_delay, else none
SpacingWait(since, delay) ==
  IF since # NoTime /\ since < delay THEN delay - since ELSE 0

RECURSIVE InsertByIndex(_, _)
InsertByIndex(sorted, r) ==
  IF sorted = <<>> THEN <<r>>
  ELSE IF sorted[Len(sorted)].test_index <= r.test_index THEN Append(sorted, r)
  ELSE Append(InsertByIndex(SubSeq(sorted, 1, Len(sorted) - 1), r), sorted[Len(sorted)])

\* results.sort(key=lambda x: x['test_index'])
RECURSIVE SortByIndex(_)
SortByIndex(list) ==
  IF list = <<>> THEN <<>>
  ELSE InsertByIndex(SortByIndex(SubSeq(list, 1, Len(list) - 1)), list[Len(list)])

Init ==
  /\ phase = "called"
  /\ n_cases \in 0..MaxCases
  /\ probe = "none"
  /\ piston_url = ConfiguredUrl
  /\ using_public_api = FALSE
  /\ max_concurrent \in ConcurrentArgs
  /\ requests_per_second \in RpsArgs
  /\ min_delay = 0
  /\ semaphore = 0
  /\ since_last = NoTime
  /\ pc = [i \in Cases |-> "start"]
  /\ case_attempt = [i \in Cases |-> 0]
  /\ wake = [i \in Cases |-> 0]
  /\ outcome = [i \in Cases |-> EmptyOutcome]
  /\ judged = [i \in Cases |-> EmptyJudged]
  /\ results = <<>>
  /\ since_dispatch = NoTime
  /\ events = [i \in Cases |-> <<>>]
  /\ main_pc = "await"
  /\ CompareIdle
  /\ RetryIdle
  /\ FilesIdle

\* No test pairs: the function returns an empty list
ReturnEmpty ==
  /\ phase = "called"
  /\ n_cases = 0
  /\ phase' = "returned_empty"
  /\ results' = <<>>
  /\ UNCHANGED <<n_cases, probe, piston_url,
                 using_public_api, max_concurrent, requests_per_second, min_delay,
                 semaphore, since_last, pc, case_attempt, wake, outcome, judged,
                 since_dispatch, events, main_pc,
                 cvars, rvars, fvars>>

\* The probe of the service and the choice of the policy, which overwrites
\* the caller's max_concurrent and requests_per_second
Probe(result) ==
  /\ phase = "called"
  /\ n_cases > 0
  /\ probe' = result
  /\ LET cfg == ProbeConfig(result, max_concurrent, requests_per_second)
     IN /\ piston_url' = cfg.piston_url
        /\ using_public_api' = cfg.using_public_api
        /\ max_concurrent' = cfg.max_concurrent
        /\ requests_per_second' = cfg.requests_per_second
        /\ min_delay' = cfg.min_delay
  /\ phase' = "probed"
  /\ UNCHANGED <<n_cases, semaphore, since_last, pc, case_attempt, wake,
                 outcome, judged, results, since_dispatch, events, main_pc,
                 cvars, rvars, fvars>>

\* The semaphore, the shared last request time and the case tasks are created
StartRun ==
  /\ phase = "probed"
  /\ probe' = "none"
  /\ semaphore' = max_concurrent
  /\ since_last' = NoTime
  /\ phase' = "gathering"
  /\ UNCHANGED <<n_cases, piston_url, using_public_api, max_concurrent,
                 requests_per_second, min_delay, pc, case_attempt, wake,
                 outcome, judged, results, since_dispatch, events, main_pc,
                 cvars, rvars, fvars>>

\* A POST is started now
NoteDispatch ==
  since_dispatch' = 0

\* What a case does before it enters "async with semaphore": it takes
\* start_time, reads the two files and takes api_start_time
StartEvents(readable) ==
  IF readable
  THEN <<"start_time", "input_read", "expected_read", "api_start_time">>
  ELSE <<"start_time">>

\* What a case does when run_test_case has returned: it writes the last
\* request time, leaves "async with semaphore" and takes api_end_time
ReturnEvents ==
  <<"api_returned", "last_request_time", "released", "api_end_time">>

\* The case reads its input and expected-output files
StartCase(i, readable) ==
  /\ phase = "gathering"
  /\ pc[i] = "start"
  /\ pc' = [pc EXCEPT ![i] = IF readable THEN "acquire" ELSE "raised"]
  /\ events' = [events EXCEPT ![i] = @ \o StartEvents(readable)]
  /\ UNCHANGED <<phase, n_cases, probe, piston_url,
                 using_public_api, max_concurrent, requests_per_second, min_delay,
                 semaphore, since_last, case_attempt, wake, outcome, judged,
                 results, since_dispatch, main_pc,
                 cvars, rvars, fvars>>

\* The case enters "async with semaphore" and either sleeps for the spacing
\* or starts its first POST
Acquire(i) ==
  /\ phase = "gathering"
  /\ pc[i] = "acquire"
  /\ SemaphoreFree(semaphore)
  /\ semaphore' = semaphore - 1
  /\ LET wait_time == SpacingWait(since_last, min_delay)
     IN IF wait_time > 0
        THEN /\ pc' = [pc EXCEPT ![i] = "spacing"]
             /\ wake' = [wake EXCEPT ![i] = wait_time]
             /\ events' = [events EXCEPT ![i] = @ \o <<"acquired">>]
             /\ UNCHANGED <<since_dispatch>>
        ELSE /\ pc' = [pc EXCEPT ![i] = "calling"]
             /\ NoteDispatch
             /\ events' = [events EXCEPT ![i] = @ \o <<"acquired", "dispatch">>]
             /\ UNCHANGED wake
  /\ case_attempt' = [case_attempt EXCEPT ![i] = 0]
  /\ UNCHANGED <<phase, n_cases, probe, piston_url,
                 using_public_api, max_concurrent, requests_per_second, min_delay,
                 since_last, outcome, judged, results, main_pc,
                 cvars, rvars, fvars>>

\* A sleep (for the spacing or a backoff) is over and the POST is started
WakeUp(i) ==
  /\ phase = "gathering"
  /\ pc[i] \in {"spacing", "backoff"}
  /\ wake[i] = 0
  /\ pc' = [pc EXCEPT ![i] = "calling"]
  /\ NoteDispatch
  /\ events' = IF pc[i] = "spacing"
               THEN [events EXCEPT ![i] = @ \o <<"dispatch">>]
               ELSE events
  /\ UNCHANGED <<phase, n_cases, probe, piston_url,
                 using_public_api, max_concurrent, requests_per_second, min_delay,
                 semaphore, since_last, case_attempt, wake, outcome, judged,
                 results, main_pc,
                 cvars, rvars, fvars>>

\* The POST is answered, and a case that backs off gives its permit back and
\* writes the last request time before it sleeps
RespondReleaseInBackoff(i, resp) ==
  /\ phase = "gathering"
  /\ pc[i] = "calling"
  /\ resp.kind = "status429" =>
       (i \in LimitedCases \/ Cardinality(LimitedCases) < MaxLimitedCases)
  /\ LET step == RetryStep(case_attempt[i], DefaultMaxRetries, DefaultRetryDelay, resp)
     IN IF step.op = "sleep"
        THEN /\ pc' = [pc EXCEPT ![i] = "backoff"]
             /\ wake' = [wake EXCEPT ![i] = step.wait * TicksPerSecond]
             /\ case_attempt' = [case_attempt EXCEPT ![i] = @ + 1]
             /\ since_last' = 0
             /\ semaphore' = semaphore + 1
             /\ UNCHANGED <<outcome, events>>
        ELSE /\ outcome' = [outcome EXCEPT ![i] = step.result]
             /\ since_last' = 0
             /\ semaphore' = semaphore + 1
             /\ pc' = [pc EXCEPT ![i] = "released"]
             /\ events' = [events EXCEPT ![i] = @ \o ReturnEvents]
             /\ UNCHANGED <<wake, case_attempt>>
  /\ UNCHANGED <<phase, n_cases, probe, piston_url,
                 using_public_api, max_concurrent, requests_per_second, min_delay,
                 judged, results, since_dispatch, main_pc,
                 cvars, rvars, fvars>>

\* The POST is answered, and on return the case keeps its permit while it
\* goes on to compare the output
RespondKeepPermit(i, resp) ==
  /\ phase = "gathering"
  /\ pc[i] = "calling"
  /\ resp.kind = "status429" =>
       (i \in LimitedCases \/ Cardinality(LimitedCases) < MaxLimitedCases)
  /\ LET step == RetryStep(case_attempt[i], DefaultMaxRetries, DefaultRetryDelay, resp)
     IN IF step.op = "sleep"
        THEN /\ pc' = [pc EXCEPT ![i] = "backoff"]
             /\ wake' = [wake EXCEPT ![i] = step.wait * TicksPerSecond]
             /\ case_attempt' = [case_attempt EXCEPT ![i] = @ + 1]
             /\ UNCHANGED <<outcome, since_last, events>>
        ELSE /\ outcome' = [outcome EXCEPT ![i] = step.result]
             /\ since_last' = 0
             /\ pc' = [pc EXCEPT ![i] = "released"]
             /\ events' = [events EXCEPT ![i] =
                             @ \o <<"api_returned", "last_request_time", "api_end_time">>]
             /\ UNCHANGED <<wake, case_attempt>>
  /\ UNCHANGED <<phase, n_cases, probe, piston_url,
                 using_public_api, max_concurrent, requests_per_second, min_delay,
                 semaphore, judged, results, since_dispatch, main_pc,
                 cvars, rvars, fvars>>

\* The POST is answered: run_test_case backs off or returns; on return the
\* last request time is written and the permit is released
Respond(i, resp) ==
  /\ phase = "gathering"
  /\ pc[i] = "calling"
  /\ resp.kind = "status429" =>
       (i \in LimitedCases \/ Cardinality(LimitedCases) < MaxLimitedCases)
  /\ LET step == RetryStep(case_attempt[i], DefaultMaxRetries, DefaultRetryDelay, resp)
     IN IF step.op = "sleep"
        THEN /\ pc' = [pc EXCEPT ![i] = "backoff"]
             /\ wake' = [wake EXCEPT ![i] = step.wait * TicksPerSecond]
             /\ case_attempt' = [case_attempt EXCEPT ![i] = @ + 1]
             /\ UNCHANGED <<outcome, since_last, semaphore, events>>
        ELSE /\ outcome' = [outcome EXCEPT ![i] = step.result]
             /\ since_last' = 0
             /\ semaphore' = semaphore + 1
             /\ pc' = [pc EXCEPT ![i] = "released"]
             /\ events' = [events EXCEPT ![i] = @ \o ReturnEvents]
             /\ UNCHANGED <<wake, case_attempt>>
  /\ UNCHANGED <<phase, n_cases, probe, piston_url,
                 using_public_api, max_concurrent, requests_per_second, min_delay,
                 judged, results, since_dispatch, main_pc,
                 cvars, rvars, fvars>>

\* The case compares the output and returns its judged result
JudgeCase(i) ==
  /\ phase = "gathering"
  /\ pc[i] = "released"
  /\ judged' = [judged EXCEPT ![i] = Judge(outcome[i], CaseExpected(i), i)]
  /\ pc' = [pc EXCEPT ![i] = "done"]
  /\ events' = [events EXCEPT ![i] = @ \o <<"compared">>]
  /\ UNCHANGED <<phase, n_cases, probe, piston_url,
                 using_public_api, max_concurrent, requests_per_second, min_delay,
                 semaphore, since_last, case_attempt, wake, outcome, results,
                 since_dispatch, main_pc,
                 cvars, rvars, fvars>>

\* One tick of time passes.  The event loop runs every task that is ready
\* before it waits: a task that has not started, that has left the semaphore
\* or whose sleep is over runs before time passes.
Tick ==
  /\ phase = "gathering"
  /\ \A i \in Cases : pc[i] \notin {"start", "released"}
  /\ \A i \in Cases : ~(pc[i] \in {"spacing", "backoff"} /\ wake[i] = 0)
  /\ \/ \E i \in Cases : wake[i] > 0
     \/ (since_last # NoTime /\ since_last < min_delay)
     \/ (since_dispatch # NoTime /\ since_dispatch < min_delay)
  /\ wake' = [i \in Cases |-> IF wake[i] > 0 THEN wake[i] - 1 ELSE 0]
  /\ since_last' = IF since_last # NoTime /\ since_last < min_delay
                   THEN since_last + 1 ELSE since_last
  /\ since_dispatch' = IF since_dispatch # NoTime /\ since_dispatch < min_delay
                       THEN since_dispatch + 1 ELSE since_dispatch
  /\ UNCHANGED <<phase, n_cases, probe, piston_url,
                 using_public_api, max_concurrent, requests_per_second, min_delay,
                 semaphore, pc, case_attempt, outcome, judged, results,
                 events, main_pc,
                 cvars, rvars, fvars>>

\* asyncio.gather has every result, in the order of the tasks; the list is
\* sorted by test_index and returned
GatherAndReturn ==
  /\ phase = "gathering"
  /\ \A i \in Cases : pc[i] = "done"
  /\ results' = SortByIndex([i \in Cases |-> judged[i]])
  /\ phase' = "returned"
  /\ UNCHANGED <<n_cases, probe, piston_url,
                 using_public_api, max_concurrent, requests_per_second, min_delay,
                 semaphore, since_last, pc, case_attempt, wake, outcome, judged,
                 since_dispatch, events, main_pc,
                 cvars, rvars, fvars>>

\* asyncio.gather re-raises the exception of a case and the run raises it
RaiseOut ==
  /\ phase = "gathering"
  /\ \E i \in Cases : pc[i] = "raised"
  /\ phase' = "raised"
  /\ main_pc' = "raised"
  /\ UNCHANGED <<n_cases, probe, piston_url,
                 using_public_api, max_concurrent, requests_per_second, min_delay,
                 semaphore, since_last, pc, case_attempt, wake, outcome, judged,
                 results, since_dispatch, events, cvars, rvars, fvars>>

\* After the run raised, the event loop cancels a case that is still running;
\* leaving "async with semaphore" releases its permit
CancelCase(i) ==
  /\ phase = "raised"
  /\ pc[i] \in {"start", "acquire", "released"} \cup HoldingPcs
  /\ semaphore' = IF Holding(i) THEN semaphore + 1 ELSE semaphore
  /\ pc' = [pc EXCEPT ![i] = "cancelled"]
  /\ events' = IF Holding(i)
               THEN [events EXCEPT ![i] = @ \o <<"released">>]
               ELSE events
  /\ UNCHANGED <<phase, n_cases, probe, piston_url,
                 using_public_api, max_concurrent, requests_per_second, min_delay,
                 since_last, case_attempt, wake, outcome, judged, results,
                 since_dispatch, main_pc,
                 cvars, rvars, fvars>>

\* What run_test_cases_from_files has returned: the list [] when there is no
\* test pair, else the pair (results, total_execution_time)
ReturnValue ==
  IF phase = "returned_empty" THEN <<>> ELSE <<results, "total_execution_time">>

\* main unpacks the value into results and total_execution_time, which
\* raises ValueError unless the value has two elements, and prints the
\* summary or "No test cases found."
MainUnpack ==
  /\ phase \in {"returned", "returned_empty"}
  /\ main_pc = "await"
  /\ main_pc' = IF Len(ReturnValue) # 2 THEN "value_error"
                ELSE IF ReturnValue[1] # <<>> THEN "summary"
                ELSE "no_test_cases"
  /\ UNCHANGED <<phase, n_cases, probe, piston_url,
                 using_public_api, max_concurrent, requests_per_second, min_delay,
                 semaphore, since_last, pc, case_attempt, wake, outcome, judged,
                 results, since_dispatch, events, cvars, rvars, fvars>>

Next ==
  \/ ReturnEmpty
  \/ \E result \in ProbeOutcomes : Probe(result)
  \/ StartRun
  \/ \E i \in Cases, readable \in BOOLEAN : StartCase(i, readable)
  \/ \E i \in Cases : Acquire(i)
  \/ \E i \in Cases : WakeUp(i)
  \/ \E i \in Cases, resp \in CaseResponses : Respond(i, resp)
  \/ \E i \in Cases : JudgeCase(i)
  \/ Tick
  \/ GatherAndReturn
  \/ RaiseOut
  \/ \E i \in Cases : CancelCase(i)
  \/ MainUnpack

Spec == Init /\ [][Next]_vars

----------------------------------------------------------------------------
\* ---- get_test_case_files (SpecFiles)
\* The directory holds input<N>.txt for N in f_inputs and output<N>.txt for N
\* in f_outputs.  A file is named by its number; the order of two names is
\* the order of the strings "input<N>.txt", which sorted() uses.
FileNums == {1, 2, 3, 10}

\* str(N): the decimal digits of N
RECURSIVE DigitsOf(_)
DigitsOf(n) == IF n < 10 THEN <<n>> ELSE Append(DigitsOf(n \div 10), n % 10)

\* "input" + a + ".txt" < "input" + b + ".txt" as strings: the first
\* differing digit decides, and "." sorts before every digit
RECURSIVE DigitsBefore(_, _)
DigitsBefore(a, b) ==
  IF a = <<>> THEN b # <<>>
  ELSE IF b = <<>> THEN FALSE
  ELSE IF a[1] # b[1] THEN a[1] < b[1]
  ELSE DigitsBefore(Tail(a), Tail(b))

NameBefore(m, n) == DigitsBefore(DigitsOf(m), DigitsOf(n))

\* sorted(test_cases_dir.glob("input*.txt"))
RECURSIVE SortedNames(_)
SortedNames(nums) ==
  IF nums = {} THEN <<>>
  ELSE LET first == CHOOSE m \in nums : \A n \in nums \ {m} : NameBefore(m, n)
       IN <<first>> \o SortedNames(nums \ {first})

\* The loop over the input files: a pair is kept when its output file exists
RECURSIVE PairsOf(_, _)
PairsOf(input_files, outputs) ==
  IF input_files = <<>> THEN <<>>
  ELSE IF Head(input_files) \in outputs
       THEN <<Head(input_files)>> \o PairsOf(Tail(input_files), outputs)
       ELSE PairsOf(Tail(input_files), outputs)

get_test_case_files(exists, inputs, outputs) ==
  IF ~exists THEN <<>> ELSE PairsOf(SortedNames(inputs), outputs)

InitFiles ==
  /\ f_pc = "call"
  /\ f_exists \in BOOLEAN
  /\ f_inputs \in SUBSET FileNums
  /\ f_outputs \in SUBSET FileNums
  /\ f_pairs = <<>>
  /\ f_warned = {}
  /\ CompareIdle
  /\ RetryIdle
  /\ RunIdle

GetTestCaseFiles ==
  /\ f_pc = "call"
  /\ f_pairs' = get_test_case_files(f_exists, f_inputs, f_outputs)
  /\ f_warned' = IF f_exists THEN f_inputs \ f_outputs ELSE {}
  /\ f_pc' = "returned"
  /\ UNCHANGED <<f_exists, f_inputs, f_outputs, cvars, rvars, ovars>>

NextFiles == GetTestCaseFiles

SpecFiles == InitFiles /\ [][NextFiles]_vars

\* ---- get_test_case_files: properties
\* C11: the returned pairs are exactly the N whose input and output file both
\* exist, each once (one pair fewer per input without output), in ascending
\* numeric order of N.
C11_PairsInNumericOrder ==
  (f_pc = "returned" /\ f_exists) =>
     /\ {f_pairs[k] : k \in 1..Len(f_pairs)} = f_inputs \cap f_outputs
     /\ Len(f_pairs) = Cardinality(f_inputs) - Cardinality(f_inputs \ f_outputs)
     /\ \A k \in 1..(Len(f_pairs) - 1) : f_pairs[k] < f_pairs[k + 1]

----------------------------------------------------------------------------
\* ---- the run: properties
RunEnded == phase \in {"returned", "raised"}
PolicyChosen == phase \in {"gathering", "returned", "raised"}
Held == {i \in Cases : Holding(i)}

\* C1: a run over N >= 1 discovered pairs ends by returning exactly N judged
\* results, the k-th being the result of case k (no case skipped or
\* duplicated, ascending test_index).
C1_AllResultsInOrder ==
  RunEnded =>
    /\ phase = "returned"
    /\ Len(results) = n_cases
    /\ \A k \in 1..Len(results) : results[k].test_index = k

\* C2: no two POSTs to the execution service are started less than
\* min_delay apart.
C2_DispatchSpacing ==
  [][(\E i \in Cases : pc[i] # "calling" /\ pc'[i] = "calling") =>
       (since_dispatch = NoTime \/ since_dispatch >= min_delay)]_vars

\* C3: the cases inside "async with semaphore" are at most max_concurrent,
\* and together with the free permits they are exactly max_concurrent.
C3_PermitsBounded ==
  PolicyChosen =>
    /\ Cardinality(Held) <= max_concurrent
    /\ semaphore >= 0
    /\ Cardinality(Held) + semaphore = max_concurrent

\* C3 witness: every permit is taken and another case waits for one
C3_Witness ==
  /\ phase = "gathering"
  /\ semaphore = 0
  /\ Cardinality(Held) = max_concurrent
  /\ \E i \in Cases : pc[i] = "acquire"

\* C4: the failure of a case never leaves the case runner: no case raises,
\* no sibling is stopped before it has its judged result, and the run
\* returns a judged result for every case.
C4_FailureStaysInCase ==
  /\ \A i \in Cases : pc[i] \notin {"raised", "cancelled"}
  /\ phase # "raised"
  /\ phase = "returned" => \A i \in Cases : \E k \in 1..Len(results) : results[k].test_index = i

\* Event e is in the list of case i
Happened(i, e) == \E k \in 1..Len(events[i]) : events[i][k] = e

\* In the events of case i, a comes before b whenever both are there: no a
\* at or after a b
Before(i, a, b) ==
  \A k \in 1..Len(events[i]) :
    events[i][k] = b => \A l \in k..Len(events[i]) : events[i][l] # a

\* The case has entered "async with semaphore" and has not left it
HasPermit(i) == Happened(i, "acquired") /\ ~Happened(i, "released")

\* C12: the read of the last request time, the wait, the POST and the write
\* of the last request time are one critical section: at most one case is
\* between its read and its write.
C12_SpacingCheckExclusive ==
  PolicyChosen => Cardinality(Held) <= 1

\* C15: a case holds no permit while it reads its files or compares the
\* output: the files are read before the permit is taken, the comparison
\* comes after the permit is given back, and the permits taken and not given
\* back are exactly those missing from the semaphore.
C15_NoPermitAcrossFilesOrCompare ==
  PolicyChosen =>
    /\ Cardinality({i \in Cases : HasPermit(i)}) = max_concurrent - semaphore
    /\ \A i \in Cases :
         /\ HasPermit(i) => pc[i] \notin {"start", "released", "done"}
         /\ Before(i, "input_read", "acquired")
         /\ Before(i, "expected_read", "acquired")
         /\ Happened(i, "compared") => Happened(i, "released")
         /\ Before(i, "released", "compared")

\* C15 witness: a case has read its files, held a permit and compared its
\* output while another case holds a permit
C15_Witness ==
  /\ phase = "gathering"
  /\ \E i, j \in Cases :
       /\ Happened(i, "input_read") /\ Happened(i, "acquired")
       /\ Happened(i, "compared")
       /\ HasPermit(j)

ClaimedOrder ==
  <<"start_time", "acquired", "api_start_time", "dispatch", "api_end_time",
    "released", "compared">>

\* C16: in one case the events come in the order start timestamp, permit
\* acquired, API start timestamp, dispatch, API end timestamp, permit
\* released, comparison.
C16_EventOrder ==
  \A i \in Cases :
    \A a, b \in 1..Len(ClaimedOrder) :
      a < b => Before(i, ClaimedOrder[a], ClaimedOrder[b])

\* C18: no case makes more than max_retries + 1 POSTs, and a run that can
\* take no further step has returned with a judged result for every case
\* and every permit back in the semaphore.
C18_RunTerminatesClean ==
  /\ \A i \in Cases : case_attempt[i] <= DefaultMaxRetries
  /\ (phase # "idle" /\ ~ENABLED Next) =>
       \/ phase = "returned_empty"
       \/ /\ phase = "returned"
          /\ \A i \in Cases : pc[i] = "done" /\ judged[i] # EmptyJudged
          /\ semaphore = max_concurrent

\* C20: with max_concurrent = 1 the first POST of a case starts at least
\* min_delay after the previous call returned and after the previous POST
\* was started.
C20_SerialFirstDispatchSpacing ==
  [][(max_concurrent = 1 /\ \E i \in Cases :
         pc[i] \in {"acquire", "spacing"} /\ pc'[i] = "calling") =>
       /\ (since_last = NoTime \/ since_last >= min_delay)
       /\ (since_dispatch = NoTime \/ since_dispatch >= min_delay)]_vars

\* C20 witness: with max_concurrent = 1 a case starts its first POST just
\* now, min_delay after the call of another case returned
C20_Witness ==
  /\ phase = "gathering"
  /\ max_concurrent = 1 /\ min_delay > 0
  /\ since_dispatch = 0 /\ since_last = min_delay
  /\ \E i, j \in Cases :
       /\ i # j
       /\ pc[i] = "calling" /\ case_attempt[i] = 0
       /\ pc[j] \in {"released", "done"}

\* The cases that are in run_test_case: at a POST or in a backoff sleep
InRetryLoop == {i \in Cases : pc[i] \in {"calling", "backoff"}}

\* In every state of the retry loop the permit is held
PermitHeldAcrossRetries ==
  phase = "gathering" =>
    /\ \A i \in InRetryLoop : HasPermit(i)
    /\ Cardinality(InRetryLoop) <= max_concurrent
    /\ Cardinality(InRetryLoop) <= max_concurrent - semaphore
    /\ \A i \in Cases :
         (max_concurrent = 1 /\ pc[i] = "backoff") =>
           /\ semaphore = 0
           /\ \A j \in Cases \ {i} : ~Holding(j) /\ ~ENABLED Acquire(j)
    /\ \A i \in Cases :
         (pc[i] = "backoff" /\ wake[i] = 0) => ENABLED WakeUp(i)

\* A step into or out of a backoff sleep leaves the semaphore and the last
\* request time alone; the last request time is written only in the step in
\* which run_test_case returns
TimestampWrittenOnReturn ==
  /\ (\E i \in Cases : (pc[i] = "calling" /\ pc'[i] = "backoff")
                      \/ (pc[i] = "backoff" /\ pc'[i] = "calling")) =>
       (since_last' = since_last /\ semaphore' = semaphore)
  /\ (since_last' = 0 /\ since_last # 0) =>
       \E i \in Cases : pc[i] = "calling" /\ pc'[i] = "released"

\* C21: a case keeps its permit through the whole retry loop, backoff
\* sleeps included, and the last request time is written only when
\* run_test_case returns; so the cases at a POST or backing off are never
\* more than max_concurrent, a retry starts as soon as its sleep is over
\* whatever the last request time is, and with max_concurrent = 1 no other
\* case can enter the semaphore while one backs off.
C21_PermitHeldAcrossRetries ==
  []PermitHeldAcrossRetries /\ [][TimestampWrittenOnReturn]_vars

\* C21 witness: with max_concurrent = 1 a case is in its second backoff
\* sleep while another case, its files read, waits for the permit
C21_Witness ==
  /\ phase = "gathering"
  /\ max_concurrent = 1
  /\ \E i, j \in Cases :
       /\ pc[i] = "backoff" /\ case_attempt[i] = 2 /\ wake[i] > 0
       /\ pc[j] = "acquire"
       /\ since_last = NoTime

\* C22: run_test_cases_from_files always returns a pair (results, total
\* time), also with no test case, so main unpacks it without raising and
\* prints "No test cases found." when there is none.
C22_AlwaysReturnsPair ==
  /\ phase \in {"returned", "returned_empty"} => Len(ReturnValue) = 2
  /\ main_pc # "value_error"
  /\ (n_cases = 0 /\ main_pc \notin {"idle", "await"}) => main_pc = "no_test_cases"

\* C10: unless the probe returned a non-empty runtime list, the run uses the
\* public endpoint with max_concurrent = 1 and requests_per_second = 4;
\* with a non-empty list it uses the configured URL and the caller's limits.
C10_ConservativeFallback ==
  [][(phase = "called" /\ phase' = "probed") =>
       IF probe' = "runtimes"
       THEN /\ piston_url' = ConfiguredUrl
            /\ max_concurrent' = max_concurrent
            /\ requests_per_second' = requests_per_second
       ELSE /\ piston_url' = PublicUrl
            /\ max_concurrent' = 1
            /\ requests_per_second' = 4
            /\ min_delay' * 4 = TicksPerSecond]_vars

----------------------------------------------------------------------------
\* ---- compare_outputs: properties
Raw(o) == IF o.set THEN o.val ELSE <<>>

\* a and e share a prefix and what follows it is whitespace in both
EqualUpToTrailingWhitespace(a, e) ==
  \E k \in 0..MinOf(Len(a), Len(e)) :
    /\ SubSeq(a, 1, k) = SubSeq(e, 1, k)
    /\ \A i \in (k + 1)..Len(a) : a[i] \in WhitespaceChars
    /\ \A i \in (k + 1)..Len(e) : e[i] \in WhitespaceChars

\* s has a non-whitespace character at position i or later
NonWsAtOrAfter(s, i) == \E j \in i..Len(s) : s[j] \notin WhitespaceChars

\* a and e differ at a position that is not inside the trailing whitespace of both
DiffersInContent(a, e) ==
  \E i \in 1..MinOf(Len(a), Len(e)) :
    /\ a[i] # e[i]
    /\ (NonWsAtOrAfter(a, i) \/ NonWsAtOrAfter(e, i))

\* C9: compare_outputs matches exactly when the two strings are equal up to
\* trailing whitespace; identical strings match, strings differing in case,
\* leading or internal content do not, the relation is symmetric and
\* trimming is idempotent.
C9_CompareTrimmedEquality ==
  c_pc = "compared" =>
    LET a == Raw(c_actual)
        e == Raw(c_expected)
    IN /\ c_match <=> EqualUpToTrailingWhitespace(a, e)
       /\ (a = e => c_match)
       /\ (DiffersInContent(a, e) => ~c_match)
       /\ compare_outputs(c_expected, c_actual).match = c_match
       /\ normalize_output(Some(normalize_output(c_actual))) = normalize_output(c_actual)
       /\ normalize_output(Some(normalize_output(c_expected))) = normalize_output(c_expected)

\* C9 witness: "a" against "a\n\n" has been compared and matched
C9_Witness ==
  /\ c_pc = "compared"
  /\ c_actual = Some(<<"a", "\n", "\n">>)
  /\ c_expected = Some(<<"a">>)
  /\ c_match

----------------------------------------------------------------------------
\* ---- run_test_case: properties
\* The responses so far are n answers, all HTTP 429
All429(h, n) == Len(h) = n /\ \A i \in 1..n : h[i] = "status429"
\* The responses so far are k HTTP 429 answers followed by one 2xx answer
K429ThenOk(h) ==
  /\ Len(h) >= 1
  /\ h[Len(h)] = "ok"
  /\ \A i \in 1..(Len(h) - 1) : h[i] = "status429"

\* C5: k <= max_retries consecutive 429 answers leave the loop running at
\* attempt k, and when a 2xx answer follows them run_test_case has made
\* exactly k+1 attempts and k backoff sleeps, the i-th (from 0) lasting
\* retry_delay * 2^i, strictly increasing, and returns the outcome decoded
\* from the 2xx answer.
C5_RetryThenSuccess ==
  /\ \A k \in 0..MaxRetries :
       (k <= r_max_retries /\ All429(r_hist, k)) =>
          (r_pc = "loop" /\ r_attempt = k /\ r_posts = k)
  /\ (r_pc # "loop" /\ K429ThenOk(r_hist)) =>
       LET k == Len(r_hist) - 1
       IN /\ k <= r_max_retries
          /\ r_posts = k + 1
          /\ Len(r_sleeps) = k
          /\ \A i \in 1..k : r_sleeps[i] = r_retry_delay * (2 ^ (i - 1))
          /\ \A i \in 1..(k - 1) : r_sleeps[i] < r_sleeps[i + 1]
          /\ r_result = Decode(r_last.body)

\* C5 witness: [429, 429, 200] with two retries allowed returned a success
C5_Witness ==
  /\ r_pc = "returned"
  /\ r_max_retries = 2
  /\ r_hist = <<"status429", "status429", "ok">>
  /\ Len(r_sleeps) = 2
  /\ r_result.success

\* C6: after max_retries+1 consecutive 429 answers run_test_case has
\* returned (it makes no further attempt) with exactly max_retries+1
\* attempts and max_retries sleeps, and the outcome is success = false,
\* runtime_error = "Rate limit exceeded", no compile_error, empty
\* stdout and stderr.
C6_RetriesExhausted ==
  (r_max_retries >= 0 /\ All429(r_hist, r_max_retries + 1)) =>
     /\ r_pc # "loop"
     /\ r_posts = r_max_retries + 1
     /\ Len(r_sleeps) = r_max_retries
     /\ r_result.success = FALSE
     /\ r_result.runtime_error = Some(<<"Rate limit exceeded">>)
     /\ r_result.compile_error = None
     /\ r_result.stdout = <<>>
     /\ r_result.stderr = <<>>

\* C6 witness: three 429 answers with two retries allowed
C6_Witness ==
  /\ r_pc = "returned"
  /\ r_max_retries = 2
  /\ All429(r_hist, 3)
  /\ r_posts = 3

\* The compile section of the body reports a failed build
CompileFailed(body) ==
  /\ body.compile.present
  /\ \/ body.compile.stderr # <<>>
     \/ (body.compile.code.has /\ body.compile.code.v # 0)

\* C7: a 2xx answer whose compile section has non-empty stderr or a nonzero
\* exit code gives an outcome with compile_error set (stderr, else stdout,
\* else "Compilation failed") and success = false, and a judged result with
\* overall_success = false, whatever the run section is.
C7_CompileErrorWins ==
  (r_pc # "loop" /\ Len(r_hist) >= 1 /\ r_last.kind = "ok" /\ CompileFailed(r_last.body)) =>
     LET c == r_last.body.compile
         expected_error == IF c.stderr # <<>> THEN c.stderr
                           ELSE IF c.stdout # <<>> THEN c.stdout
                           ELSE <<"Compilation failed">>
     IN /\ r_result.compile_error = Some(expected_error)
        /\ r_result.success = FALSE
        /\ r_pc \in {"judged", "summarised"} =>
             /\ r_judged.compile_error = Some(expected_error)
             /\ r_judged.overall_success = FALSE

\* C7 witness: the build failed although the run section exits 0 with the
\* expected output
C7_Witness ==
  /\ r_pc = "judged"
  /\ r_last.kind = "ok"
  /\ r_last.body.compile.present
  /\ r_last.body.compile.stderr = <<"syntax error">>
  /\ r_last.body.run.present
  /\ r_last.body.run.code = Code(0)
  /\ r_judged.output_match
  /\ r_judged.overall_success = FALSE

\* C8 as stated: a failed result is a compile error if compile_error is
\* set (read as: a non-empty message), else a runtime error if runtime_error
\* is set, else an output mismatch, and never anything else.
C8_Original ==
  r_pc = "summarised" =>
    IF r_judged.overall_success THEN r_reason = NoReason
    ELSE IF Truthy(r_judged.compile_error) THEN r_reason = "Compilation error"
    ELSE IF Truthy(r_judged.runtime_error) THEN r_reason = "Runtime error"
    ELSE r_reason = "Output mismatch"

\* C8 amended: a failed result gets exactly one of four reasons, in priority
\* order: compile error if compile_error is non-empty, else runtime error if
\* runtime_error is non-empty, else output mismatch if the output differs,
\* else "Execution failed"; a result with overall_success gets no failure
\* reason.
C8_ReasonPriority ==
  r_pc = "summarised" =>
    LET ce == r_judged.compile_error.set /\ r_judged.compile_error.val # <<>>
        re == r_judged.runtime_error.set /\ r_judged.runtime_error.val # <<>>
    IN IF r_judged.overall_success
       THEN r_reason = NoReason /\ ~ce /\ r_judged.output_match
       ELSE /\ r_reason \in {"Compilation error", "Runtime error",
                             "Output mismatch", "Execution failed"}
            /\ (r_reason = "Compilation error") <=> ce
            /\ (r_reason = "Runtime error") <=> (~ce /\ re)
            /\ (r_reason = "Output mismatch") <=> (~ce /\ ~re /\ ~r_judged.output_match)
            /\ (r_reason = "Execution failed") <=>
                 (~ce /\ ~re /\ r_judged.output_match /\ ~r_judged.success)

\* C8 witness: a nonzero exit with stderr and the expected stdout is
\* summarised as "Execution failed"
C8_Witness ==
  /\ r_pc = "summarised"
  /\ r_last.kind = "ok"
  /\ r_last.body.run.code = Code(1)
  /\ r_last.body.run.stderr # <<>>
  /\ r_judged.output_match
  /\ r_reason = "Execution failed"

\* run_test_case has made a POST and has returned
ReturnedAfterPost == r_pc # "loop" /\ Len(r_hist) > 0

\* The message says "rate limit", "ratelimit", "429" or "too many requests",
\* in whatever case
MentionsRateLimit(msg) ==
  \E i \in 1..Len(msg) :
    msg[i] \in {"rate limit", "Rate limit", "ratelimit", "429",
                "too many requests", "Too Many Requests"}

TransportRateLimit(resp) == resp.kind = "client_error" /\ MentionsRateLimit(resp.msg)

\* The sleeps so far are retry_delay * 2^attempt for attempt = 0, 1, ...
BackoffsDouble ==
  \A k \in 1..Len(r_sleeps) : r_sleeps[k] = r_retry_delay * (2 ^ (k - 1))

\* C13 as stated: when the last of max_retries + 1 attempts fails with a
\* transport error that indicates rate limiting, run_test_case returns
\* success = false with runtime_error = "Rate limit exceeded".
C13_Original ==
  (ReturnedAfterPost /\ TransportRateLimit(r_last)) =>
    /\ ~r_result.success
    /\ r_result.runtime_error = Some(<<"Rate limit exceeded">>)

\* C13: a transport error that indicates rate limiting is retried with
\* backoff retry_delay * 2^attempt while retries are left; run_test_case
\* returns on such an error only at attempt max_retries, and then with
\* success = false and runtime_error = "HTTP error: <message>".
C13_TransportRateLimitExhausted ==
  /\ (r_pc = "loop" /\ Len(r_hist) > 0 /\ r_last.kind = "client_error") =>
        /\ MentionsRateLimit(r_last.msg)
        /\ Len(r_sleeps) = Len(r_hist)
        /\ BackoffsDouble
  /\ (ReturnedAfterPost /\ TransportRateLimit(r_last)) =>
        /\ r_posts = r_max_retries + 1
        /\ Len(r_sleeps) = r_max_retries
        /\ BackoffsDouble
        /\ ~r_result.success
        /\ r_result.runtime_error = Some(<<"HTTP error: ">> \o r_last.msg)
        /\ r_result.compile_error = None
        /\ r_result.stdout = <<>>

\* C13 witness: every one of two or more attempts failed with the transport
\* error "Too Many Requests" and run_test_case has returned
C13_Witness ==
  /\ ReturnedAfterPost
  /\ r_max_retries >= 1
  /\ Len(r_hist) = r_max_retries + 1
  /\ \A k \in 1..Len(r_hist) : r_hist[k] = "client_error"
  /\ r_last.msg = <<"Too Many Requests">>
  /\ r_result.runtime_error = Some(<<"HTTP error: ", "Too Many Requests">>)

\* The text ends with the message
EndsWith(text, msg) ==
  /\ Len(text) >= Len(msg)
  /\ SubSeq(text, Len(text) - Len(msg) + 1, Len(text)) = msg

\* A failure that is not a rate-limit signal
FinalFailure(resp) ==
  \/ resp.kind = "exception"
  \/ resp.kind = "client_error" /\ ~MentionsRateLimit(resp.msg)

\* C14: a failure that is not a rate-limit signal ends run_test_case at the
\* attempt it occurs in, with no sleep after it, with success = false and a
\* runtime_error that carries the message; a 2xx response is final too,
\* whatever compile or runtime error it reports.
C14_OtherFailuresFinal ==
  (Len(r_hist) > 0 /\ (FinalFailure(r_last) \/ r_last.kind = "ok")) =>
    /\ r_pc # "loop"
    /\ r_posts = Len(r_hist)
    /\ Len(r_sleeps) = Len(r_hist) - 1
    /\ FinalFailure(r_last) =>
         /\ ~r_result.success
         /\ r_result.runtime_error.set
         /\ EndsWith(r_result.runtime_error.val, r_last.msg)
         /\ r_result.compile_error = None

\* C14 witness: after one retry for a 429, "Connection refused" ended the
\* call although a retry was left
C14_Witness ==
  /\ r_pc # "loop"
  /\ r_max_retries >= 2
  /\ r_hist = <<"status429", "client_error">>
  /\ r_last.msg = <<"Connection refused">>
  /\ r_result.runtime_error = Some(<<"HTTP error: ", "Connection refused">>)

\* The exit code of a run section, a missing one read as nonzero
ExitCode(run) == IF run.code.has THEN run.code.v ELSE -1

\* What the claim says of a run section, but for the success flag
RunSectionDecoded(body, result) ==
  IF body.run.present
  THEN /\ result.stdout = body.run.stdout
       /\ result.stderr = body.run.stderr
       /\ (ExitCode(body.run) # 0 /\ body.run.stderr = <<>>) =>
            result.runtime_error =
              Some(<<"Process exited with code ", ToString(ExitCode(body.run))>>)
       /\ (ExitCode(body.run) # 0 /\ body.run.stderr # <<>>) =>
            result.runtime_error = None
       /\ ExitCode(body.run) = 0 => result.runtime_error = None
  ELSE /\ result.runtime_error = Some(<<"No execution output received">>)
       /\ ~result.success

\* C17 as stated: for a 2xx response with a run section, success is
\* (exit code = 0).
C17_Original ==
  (ReturnedAfterPost /\ r_last.kind = "ok") =>
    /\ RunSectionDecoded(r_last.body, r_result)
    /\ r_last.body.run.present => (r_result.success = (ExitCode(r_last.body.run) = 0))

\* C17: for a 2xx response with a run section, stdout and stderr are the
\* section's, and success is (exit code = 0) unless the compile section
\* reports a failure (then success is false); a nonzero or missing exit
\* code with empty stderr gives "Process exited with code N", with stderr it
\* gives no runtime_error; without a run section the runtime_error is "No
\* execution output received" and success is false.
C17_DecodeRunSection ==
  (ReturnedAfterPost /\ r_last.kind = "ok") =>
    /\ RunSectionDecoded(r_last.body, r_result)
    /\ r_last.body.run.present =>
         (r_result.success =
            (ExitCode(r_last.body.run) = 0 /\ ~CompileFailed(r_last.body)))

\* C17 witness: a run section with no exit code and no stderr
C17_Witness ==
  /\ ReturnedAfterPost /\ r_last.kind = "ok"
  /\ r_last.body.run.present
  /\ ~r_last.body.run.code.has
  /\ r_last.body.run.stderr = <<>>
  /\ r_result.runtime_error = Some(<<"Process exited with code ", "-1">>)

\* The remote execution failed: no 2xx response, a nonzero or missing exit
\* code, or no run section
ExecutionFailed ==
  \/ Len(r_hist) = 0
  \/ r_last.kind # "ok"
  \/ ~r_last.body.run.present
  \/ ExitCode(r_last.body.run) # 0

\* C19: overall_success is success and output_match and no compile_error;
\* a case whose execution failed never has overall_success.
C19_OverallSuccess ==
  r_pc \in {"judged", "summarised"} =>
    /\ r_judged.overall_success =
         (r_judged.success /\ r_judged.output_match /\ r_judged.compile_error = None)
    /\ r_judged.success = r_result.success
    /\ ExecutionFailed => ~r_judged.overall_success

\* C19 witness: a transport error leaves stdout empty, which matches a
\* whitespace-only expected output, and the case still fails
C19_Witness ==
  /\ r_pc = "judged"
  /\ Len(r_hist) > 0 /\ r_last.kind = "client_error"
  /\ r_expected = <<"\n">>
  /\ r_judged.output_match
  /\ ~r_judged.overall_success

\* run_test_case has returned the outcome that follows its attempt loop
FellThrough ==
  r_pc # "loop" /\ r_result.runtime_error = Some(<<"Failed to execute after retries">>)

\* C23: with max_retries >= 0 the attempt loop is never left without a
\* return: the attempt number stays within max_retries, the call returns
\* after a POST that was not followed by a sleep, and the outcome "Failed to
\* execute after retries" is returned only with max_retries < 0, when no
\* POST was made.
C23_ReturnsInsideLoop ==
  /\ r_max_retries >= 0 =>
       /\ r_attempt <= r_max_retries
       /\ ~FellThrough
       /\ r_pc # "loop" => (r_posts >= 1 /\ Len(r_sleeps) = r_posts - 1)
  /\ FellThrough => (r_max_retries < 0 /\ r_posts = 0)
  /\ (r_max_retries < 0 /\ r_pc # "loop") => FellThrough

\* C23 witness: every allowed attempt was rate limited, by the status 429
\* and by a transport error, and the last one returned from inside the loop
C23_Witness ==
  /\ r_pc = "returned"
  /\ r_max_retries >= 1
  /\ r_posts = r_max_retries + 1
  /\ Len(r_sleeps) = r_max_retries
  /\ r_hist[1] = "client_error"
  /\ r_hist[Len(r_hist)] = "status429"
  /\ r_result.runtime_error = Some(<<"Rate limit exceeded">>)

====
